---- MODULE Spec2Model ----
(***************************************************************************)
(* Model of the API document generator: backend/logic.py (properties       *)
(* loader, generate_api_doc) and backend/main.py (the /upload/ endpoint).  *)
(*                                                                         *)
(* A text is a sequence of characters (fixed texts of the source that no   *)
(* rule looks into are kept as one element).  Column and sheet names of    *)
(* the source are written in ASCII; the source name is given next to each. *)
(***************************************************************************)
EXTENDS Integers, Sequences, FiniteSets, TLC

VARIABLES
    \* ---- one run of generate_api_doc and of its caller ----
    db,                 \* what the database, the properties file and the disk will answer
    pc,                 \* position in generate_api_doc / upload_files
    conn,               \* "none" | "open" | "closed"
    exc,                \* exception in flight ("none" when there is none)
    executed,           \* the steps executed so far, in order
    relevant_api_codes, \* logic.py:98
    api_hierarchy_df,   \* logic.py:114
    cat_df,             \* the five category result sets, by sheet name
    api_data,           \* logic.py:195, the hierarchy index
    sql_map,            \* logic.py:212
    doc,                \* the in-memory document: the elements appended to the template
    out_file,           \* the file at output_path
    response,           \* what upload_files answers
    \* ---- one rule or function of the source applied to one input ----
    fmt_pc, fmt_in, fmt_out,
    \* ---- concurrent upload requests ----
    upc,                \* position of each request in upload_files
    tmp_word, tmp_props,            \* the temporary files opened at main.py:55, 64
    tmp_word_path, tmp_props_path,  \* main.py:48-49
    output_path,        \* main.py:50
    fs,                 \* the files of the temporary directory
    made,               \* temporary files created so far
    sent                \* what each request was answered

pipeVars == <<db, pc, conn, exc, executed, relevant_api_codes, api_hierarchy_df,
              cat_df, api_data, sql_map, doc, out_file, response>>
fmtVars == <<fmt_pc, fmt_in, fmt_out>>
upVars == <<upc, tmp_word, tmp_props, tmp_word_path, tmp_props_path, output_path, fs,
            made, sent>>
vars == <<pipeVars, fmtVars, upVars>>

(***************************************************************************)
(* Bounds                                                                  *)
(***************************************************************************)
MaxLen == 4         \* longest text given to the formatting rules
MaxNum == 2         \* largest number given to the formatting rules
MaxOrderRows == 3   \* most rows of the batch/API ordering result set
MaxCatRows == 2     \* most rows one API has in one category result set
NumRequests == 2    \* upload requests in flight
MaxPropsLines == 3  \* lines of a properties file
MaxIndexRows == 3   \* rows of a category result set given to populate_api_data

(***************************************************************************)
(* Text and values                                                         *)
(***************************************************************************)
BS == "\\"
NL == "\n"
TAB == "\t"

Whitespace == {" ", TAB, NL}

\* logic.py:22 and logic.py:24
DEFAULT_NAN_DISPLAY == <<"N", "a", "N">>
DEFAULT_SQL_NOT_FOUND == <<" ", "n", "o", " ", "S", "Q", "L">>

\* A cell of a result set: SQL NULL (None/NaN), a string, an integer or a
\* float (kept in tenths).
Null == [t |-> "null"]
StrV(s) == [t |-> "str", s |-> s]
IntV(n) == [t |-> "int", n |-> n]
FltV(x) == [t |-> "float", x10 |-> x]

\* pd.notna
NotNa(v) == v.t # "null"

DigitChar(d) == <<"0", "1", "2", "3", "4", "5", "6", "7", "8", "9">>[d + 1]
IsDigit(c) == c \in {"0", "1", "2", "3", "4", "5", "6", "7", "8", "9"}
DigitVal(c) == CHOOSE d \in 0..9 : DigitChar(d) = c

RECURSIVE StrOfNat(_)
StrOfNat(n) == IF n < 10 THEN <<DigitChar(n)>>
               ELSE StrOfNat(n \div 10) \o <<DigitChar(n % 10)>>

\* str(value)
PyStr(v) ==
    CASE v.t = "str" -> v.s
      [] v.t = "int" -> StrOfNat(v.n)
      [] v.t = "float" -> StrOfNat(v.x10 \div 10) \o <<".", DigitChar(v.x10 % 10)>>
      [] OTHER -> <<"N", "o", "n", "e">>

RECURSIVE LStrip(_)
LStrip(s) == IF s # <<>> /\ Head(s) \in Whitespace THEN LStrip(Tail(s)) ELSE s

RECURSIVE RStrip(_)
RStrip(s) == IF s # <<>> /\ s[Len(s)] \in Whitespace
             THEN RStrip(SubSeq(s, 1, Len(s) - 1)) ELSE s

\* str.strip()
Strip(s) == RStrip(LStrip(s))

AllDigits(s) == \A i \in 1..Len(s) : IsDigit(s[i])

RECURSIVE NatOfDigits(_)
NatOfDigits(s) == IF s = <<>> THEN 0
                  ELSE 10 * NatOfDigits(SubSeq(s, 1, Len(s) - 1)) + DigitVal(s[Len(s)])

DotAt(s) == CHOOSE i \in 1..Len(s) : s[i] = "."

\* float(value): [ok, isint]; ok = FALSE is ValueError.  A string is stripped
\* and read as digits with at most one decimal point and at least one digit.
PyFloat(v) ==
    CASE v.t = "int" -> [ok |-> TRUE, isint |-> TRUE]
      [] v.t = "float" -> [ok |-> TRUE, isint |-> (v.x10 % 10 = 0)]
      [] v.t = "str" ->
            LET s == Strip(v.s) IN
            IF s # <<>> /\ AllDigits(s) THEN [ok |-> TRUE, isint |-> TRUE]
            ELSE IF \E i \in 1..Len(s) : s[i] = "."
            THEN LET ip == SubSeq(s, 1, DotAt(s) - 1)
                     fp == SubSeq(s, DotAt(s) + 1, Len(s))
                 IN IF AllDigits(ip) /\ AllDigits(fp) /\ Len(ip) + Len(fp) > 0
                    THEN [ok |-> TRUE, isint |-> (\A i \in 1..Len(fp) : fp[i] = "0")]
                    ELSE [ok |-> FALSE, isint |-> FALSE]
            ELSE [ok |-> FALSE, isint |-> FALSE]
      [] OTHER -> [ok |-> FALSE, isint |-> FALSE]

\* int(value): [ok, n]; ok = FALSE is ValueError.  A float is truncated, a
\* string is stripped and must be digits only.
PyInt(v) ==
    CASE v.t = "int" -> [ok |-> TRUE, n |-> v.n]
      [] v.t = "float" -> [ok |-> TRUE, n |-> v.x10 \div 10]
      [] v.t = "str" ->
            LET s == Strip(v.s) IN
            IF s # <<>> /\ AllDigits(s) THEN [ok |-> TRUE, n |-> NatOfDigits(s)]
            ELSE [ok |-> FALSE, n |-> 0]
      [] OTHER -> [ok |-> FALSE, n |-> 0]

(***************************************************************************)
(* Cell formatting rules of the renderer                                   *)
(***************************************************************************)
\* pd.notna(value) and str(value).strip() != ''
Present(v) == NotNa(v) /\ Strip(PyStr(v)) # <<>>

\* logic.py:270-271, 335-336: a text cell
FormatText(v) == IF Present(v) THEN PyStr(v) ELSE DEFAULT_NAN_DISPLAY

\* logic.py:269: the API_seq (API順序) cell of the API-list table.
\* [ok, text]; ok = FALSE is the ValueError of float() or int().
FormatApiSeq(seq_val) ==
    IF ~NotNa(seq_val) THEN [ok |-> TRUE, text |-> DEFAULT_NAN_DISPLAY]
    ELSE IF ~PyFloat(seq_val).ok THEN [ok |-> FALSE, text |-> <<>>]
    ELSE IF PyFloat(seq_val).isint
         THEN IF PyInt(seq_val).ok
              THEN [ok |-> TRUE, text |-> StrOfNat(PyInt(seq_val).n)]
              ELSE [ok |-> FALSE, text |-> <<>>]
    ELSE [ok |-> TRUE, text |-> DEFAULT_NAN_DISPLAY]

\* logic.py:398: the columns shown as integers in the sub-section tables
\* ("seq" is 序, "node_level" is 節點階層)
IntegerHeaders == {"seq", "node_level"}

\* logic.py:399-403
FormatIntegerCell(value) ==
    IF ~PyFloat(value).ok THEN PyStr(value)
    ELSE IF PyFloat(value).isint
         THEN IF PyInt(value).ok THEN StrOfNat(PyInt(value).n) ELSE PyStr(value)
    ELSE PyStr(value)

\* logic.py:393-405: one cell of a sub-section table
FormatCell(header, value) ==
    IF Present(value)
    THEN IF header \in IntegerHeaders THEN FormatIntegerCell(value) ELSE PyStr(value)
    ELSE DEFAULT_NAN_DISPLAY

\* str.replace(old, new) for a two-character old and a one-character new
RECURSIVE Replace2(_, _, _)
Replace2(s, old, new) ==
    IF Len(s) < 2 THEN s
    ELSE IF s[1] = old[1] /\ s[2] = old[2]
         THEN <<new>> \o Replace2(SubSeq(s, 3, Len(s)), old, new)
         ELSE <<s[1]>> \o Replace2(Tail(s), old, new)

\* DecodeEscapes without the third replace of logic.py:330
DecodeEscapesNoEquals(raw_value) ==
    Replace2(Replace2(raw_value, <<BS, "n">>, NL), <<BS, "t">>, TAB)

\* logic.py:330
DecodeEscapes(raw_value) ==
    Replace2(Replace2(Replace2(raw_value, <<BS, "n">>, NL), <<BS, "t">>, TAB),
             <<BS, "=">>, "=")

\* dict.get(key, default)
DictGet(d, key, default) == IF key \in DOMAIN d THEN d[key] ELSE default

\* logic.py:322-330: the value of the syntax (語法) row
ResolveSyntax(config_key_val, sqlmap) ==
    IF Present(config_key_val)
    THEN DecodeEscapes(DictGet(sqlmap, PyStr(config_key_val), DEFAULT_SQL_NOT_FOUND))
    ELSE DEFAULT_NAN_DISPLAY

(***************************************************************************)
(* Result sets and the document                                            *)
(***************************************************************************)
\* A row of a result set is a function from column name to cell value.
\* row.get(column, '')
RowGet(row, column) == IF column \in DOMAIN row THEN row[column] ELSE StrV(<<>>)

\* series == value (an element-wise comparison: a missing value equals nothing)
PandasEq(a, b) == NotNa(a) /\ NotNa(b) /\ a = b

\* The elements appended to the template, in order.
Para(style, text) ==
    [k |-> "p", style |-> style, text |-> text, headers |-> <<>>, rows |-> <<>>]
Table(headers, rows) ==
    [k |-> "tbl", style |-> "Table Grid", text |-> <<>>, headers |-> headers, rows |-> rows]

\* logic.py:26 and logic.py:104: the text of the "no data" paragraph
API_FLOW_PREFIX == <<"F", "I", "_", "%">>
NoDataMessage == <<"no data for '">> \o API_FLOW_PREFIX \o <<"'">>

\* Character order of str comparison, for the characters the model uses
CharOrder == <<" ", "%", "'", "(", ")", ".", "0", "1", "2", "3", "4", "5", "6",
               "7", "8", "9", "=", "A", "B", "F", "I", "K", "N", "Q", "S", "_",
               "a", "b", "c", "d", "n", "o", "t", "x">>
Ord(c) == CHOOSE i \in 1..Len(CharOrder) : CharOrder[i] = c

RECURSIVE TextLess(_, _)
TextLess(a, b) ==
    IF b = <<>> THEN FALSE
    ELSE IF a = <<>> THEN TRUE
    ELSE IF Head(a) = Head(b) THEN TextLess(Tail(a), Tail(b))
    ELSE Ord(Head(a)) < Ord(Head(b))

\* logic.py:221: DataFrame[['batch_code','batch_desc']].drop_duplicates()
\* (批次代碼, 批次說明); the first occurrence of each pair is kept
RECURSIVE DropDuplicates(_, _)
DropDuplicates(rows, seen) ==
    IF rows = <<>> THEN <<>>
    ELSE LET pair == <<Head(rows)["batch_code"], Head(rows)["batch_desc"]>> IN
         IF pair \in seen THEN DropDuplicates(Tail(rows), seen)
         ELSE <<pair>> \o DropDuplicates(Tail(rows), seen \cup {pair})

\* The key order of sort_values: ascending, missing values last
DescBefore(p, q) == NotNa(p[2]) /\ (~NotNa(q[2]) \/ TextLess(p[2].s, q[2].s))

\* Inserts pair p after every pair that does not sort after it (a stable sort)
RECURSIVE InsertSorted(_, _)
InsertSorted(p, sorted) ==
    IF sorted = <<>> THEN <<p>>
    ELSE IF DescBefore(p, Head(sorted)) THEN <<p>> \o sorted
    ELSE <<Head(sorted)>> \o InsertSorted(p, Tail(sorted))

\* sort_values with ascending=False
RECURSIVE InsertSortedDescending(_, _)
InsertSortedDescending(p, sorted) ==
    IF sorted = <<>> THEN <<p>>
    ELSE IF DescBefore(Head(sorted), p) THEN <<p>> \o sorted
    ELSE <<Head(sorted)>> \o InsertSortedDescending(p, Tail(sorted))

RECURSIVE SortValuesDescending(_)
SortValuesDescending(pairs) ==
    IF pairs = <<>> THEN <<>>
    ELSE InsertSortedDescending(pairs[Len(pairs)],
                                SortValuesDescending(SubSeq(pairs, 1, Len(pairs) - 1)))

\* logic.py:221: sort_values(by=['batch_desc'])
RECURSIVE SortValues(_)
SortValues(pairs) ==
    IF pairs = <<>> THEN <<>>
    ELSE InsertSorted(pairs[Len(pairs)], SortValues(SubSeq(pairs, 1, Len(pairs) - 1)))

\* logic.py:221
BatchList(hierarchy) == SortValues(DropDuplicates(hierarchy, {}))

\* logic.py:226-229
RECURSIVE GroupDf(_, _, _)
GroupDf(hierarchy, batch_code, batch_desc) ==
    IF hierarchy = <<>> THEN <<>>
    ELSE (IF PandasEq(Head(hierarchy)["batch_code"], batch_code)
             /\ PandasEq(Head(hierarchy)["batch_desc"], batch_desc)
          THEN <<Head(hierarchy)>> ELSE <<>>)
         \o GroupDf(Tail(hierarchy), batch_code, batch_desc)

(***************************************************************************)
(* The renderer (logic.py:219-416)                                         *)
(***************************************************************************)
\* logic.py:238 (順序, API代碼, API說明) and logic.py:294 (序, 參數, 設定值)
headers_api_hierarchy == <<"order", "API_code", "API_desc">>
headers_api_list == <<"seq", "param", "value">>

\* logic.py:313-316 (API代碼, API簡述, API說明, API行為類型, 資料庫連線名稱,
\* 執行類型, 語法設定鍵值, 驗證金鑰, 是否編碼, 語法)
param_names == <<"API_code", "API_brief", "API_desc", "API_behavior_type",
                 "db_conn_name", "exec_type", "syntax_key", "auth_key",
                 "is_encoded", "syntax">>

\* logic.py:359-364 (參數驗證, WebService, IP權限設定, 輸出設定)
section_order ==
    << [sheet_name |-> "param_validation",
        headers |-> <<"seq", "attr_name", "default", "desc">>],
       [sheet_name |-> "WebService",
        headers |-> <<"seq", "host_code", "host_name", "host_ip", "enabled">>],
       [sheet_name |-> "IP_permission",
        headers |-> <<"IP", "desc">>],
       [sheet_name |-> "output_setting",
        headers |-> <<"node_level", "parent_key", "child_key", "output_field">>] >>

PlaceholderRow(n) == [j \in 1..n |-> DEFAULT_NAN_DISPLAY]

\* logic.py:261-273: the data rows of the API-list table, up to the first row
\* whose API_seq raises.  [ok, rows]
RECURSIVE ApiListRows(_)
ApiListRows(group_df) ==
    IF group_df = <<>> THEN [ok |-> TRUE, rows |-> <<>>]
    ELSE LET api_row == Head(group_df)
             seq == FormatApiSeq(RowGet(api_row, "API_seq"))
             rest == ApiListRows(Tail(group_df))
         IN IF ~seq.ok THEN [ok |-> FALSE, rows |-> <<>>]
            ELSE [ok |-> rest.ok,
                  rows |-> << <<seq.text,
                                FormatText(RowGet(api_row, "API_code")),
                                FormatText(RowGet(api_row, "API_desc"))>> >> \o rest.rows]

\* logic.py:252-273
ApiListTable(group_df) ==
    IF group_df = <<>>
    THEN [ok |-> TRUE, elem |-> Table(headers_api_hierarchy, <<PlaceholderRow(3)>>)]
    ELSE [ok |-> ApiListRows(group_df).ok,
          elem |-> Table(headers_api_hierarchy, ApiListRows(group_df).rows)]

\* api_data.get(api_code, {}).get(sheet_name): <<>> stands for None
IndexGet(index, api_code, sheet_name) ==
    IF api_code \in DOMAIN index /\ sheet_name \in DOMAIN index[api_code]
    THEN index[api_code][sheet_name] ELSE <<>>

\* DetailValue without the null/blank test of logic.py:335
DetailValueRaw(param, api_df, sqlmap) ==
    IF param = "syntax" THEN ResolveSyntax(api_df[1]["syntax_key"], sqlmap)
    ELSE IF param \in DOMAIN api_df[1] THEN PyStr(api_df[1][param])
    ELSE DEFAULT_NAN_DISPLAY

\* logic.py:322-338: the value shown for one parameter of the detail table
DetailValue(param, api_df, sqlmap) ==
    IF param = "syntax" THEN ResolveSyntax(api_df[1]["syntax_key"], sqlmap)
    ELSE IF param \in DOMAIN api_df[1] THEN FormatText(api_df[1][param])
    ELSE DEFAULT_NAN_DISPLAY

\* logic.py:291-354
DetailTable(api_code, index, sqlmap) ==
    LET api_df == IndexGet(index, api_code, "API_list") IN
    IF api_df # <<>>
    THEN Table(headers_api_list,
               [i \in 1..Len(param_names) |->
                    <<StrOfNat(i), <<param_names[i]>>, DetailValue(param_names[i], api_df, sqlmap)>>])
    ELSE Table(headers_api_list, <<PlaceholderRow(3)>>)

\* SectionTable without the placeholder row of logic.py:409-414
SectionTableNoPlaceholder(section, api_code, index) ==
    LET df == IndexGet(index, api_code, section.sheet_name) IN
    Table(section.headers,
          [r \in 1..Len(df) |->
               [j \in 1..Len(section.headers) |->
                    FormatCell(section.headers[j], RowGet(df[r], section.headers[j]))]])

\* logic.py:383-415
SectionTable(section, api_code, index) ==
    LET df == IndexGet(index, api_code, section.sheet_name) IN
    IF df # <<>>
    THEN Table(section.headers,
               [r \in 1..Len(df) |->
                    [j \in 1..Len(section.headers) |->
                         FormatCell(section.headers[j], RowGet(df[r], section.headers[j]))]])
    ELSE Table(section.headers, <<PlaceholderRow(Len(section.headers))>>)

\* logic.py:367-416
RECURSIVE Sections(_, _, _)
Sections(sections, api_code, index) ==
    IF sections = <<>> THEN <<>>
    ELSE << Para("Heading 5", <<Head(sections).sheet_name>>),
            SectionTable(Head(sections), api_code, index),
            Para("", <<>>) >>
         \o Sections(Tail(sections), api_code, index)

\* logic.py:288-416: the detail section of one API
ApiSection(api_code, index, sqlmap) ==
    << Para("Heading 4", api_code),
       DetailTable(api_code, index, sqlmap),
       Para("", <<>>) >>
    \o Sections(section_order, api_code, index)

\* ApiSections without the skip of logic.py:284-286
RECURSIVE ApiSectionsNoSkip(_, _, _)
ApiSectionsNoSkip(group_df, index, sqlmap) ==
    IF group_df = <<>> THEN <<>>
    ELSE ApiSection(PyStr(Head(group_df)["API_code"]), index, sqlmap)
         \o ApiSectionsNoSkip(Tail(group_df), index, sqlmap)

\* logic.py:281-416: the detail sections of a batch; a row whose API code is
\* missing or blank is skipped
RECURSIVE ApiSections(_, _, _)
ApiSections(group_df, index, sqlmap) ==
    IF group_df = <<>> THEN <<>>
    ELSE (IF ~Present(Head(group_df)["API_code"]) THEN <<>>
          ELSE ApiSection(PyStr(Head(group_df)["API_code"]), index, sqlmap))
         \o ApiSections(Tail(group_df), index, sqlmap)

\* logic.py:222-416: the loop over the batches, up to the batch whose API-list
\* table raises.  [ok, elems]
RECURSIVE RenderBatches(_, _, _, _)
RenderBatches(batch_list, hierarchy, index, sqlmap) ==
    IF batch_list = <<>> THEN [ok |-> TRUE, elems |-> <<>>]
    ELSE LET batch_code == Head(batch_list)[1]
             batch_desc == Head(batch_list)[2]
             group_df == GroupDf(hierarchy, batch_code, batch_desc)
             heading == Para("Heading 2",
                             PyStr(batch_code) \o <<" ", "(">> \o PyStr(batch_desc) \o <<")">>)
             tbl == ApiListTable(group_df)
             rest == RenderBatches(Tail(batch_list), hierarchy, index, sqlmap)
         IN IF ~tbl.ok THEN [ok |-> FALSE, elems |-> <<heading, tbl.elem>>]
            ELSE [ok |-> rest.ok,
                  elems |-> <<heading, tbl.elem, Para("", <<>>)>>
                            \o ApiSections(group_df, index, sqlmap)
                            \o rest.elems]

\* logic.py:219-416
Render(hierarchy, index, sqlmap) ==
    RenderBatches(BatchList(hierarchy), hierarchy, index, sqlmap)

(***************************************************************************)
(* The hierarchy index and the properties loader                           *)
(***************************************************************************)
\* df['API_code'].dropna().unique(): the codes of a result set, in order of
\* first occurrence (API代碼)
RECURSIVE UniqueCodes(_, _)
UniqueCodes(cells, seen) ==
    IF cells = <<>> THEN <<>>
    ELSE IF ~NotNa(Head(cells)) \/ PyStr(Head(cells)) \in seen
         THEN UniqueCodes(Tail(cells), seen)
         ELSE <<PyStr(Head(cells))>> \o UniqueCodes(Tail(cells), seen \cup {PyStr(Head(cells))})

CodeColumn(df) == [r \in 1..Len(df) |-> df[r]["API_code"]]

\* df[df['API_code'] == api_code]
RECURSIVE RowsOfCode(_, _)
RowsOfCode(df, api_code) ==
    IF df = <<>> THEN <<>>
    ELSE (IF PandasEq(Head(df)["API_code"], StrV(api_code)) THEN <<Head(df)>> ELSE <<>>)
         \o RowsOfCode(Tail(df), api_code)

SeqRange(q) == {q[i] : i \in 1..Len(q)}

\* populate_api_data that assigns a fresh dictionary to the code at every call
populate_api_data_replacing(index, df, sheet_name) ==
    LET codes == SeqRange(UniqueCodes(CodeColumn(df), {})) IN
    [c \in DOMAIN index \cup codes |->
        IF c \in codes THEN (sheet_name :> RowsOfCode(df, c)) ELSE index[c]]

\* logic.py:198-202
populate_api_data(index, df, sheet_name) ==
    LET codes == SeqRange(UniqueCodes(CodeColumn(df), {})) IN
    [c \in DOMAIN index \cup codes |->
        IF c \in codes
        THEN (sheet_name :> RowsOfCode(df, c)) @@ (IF c \in DOMAIN index THEN index[c] ELSE <<>>)
        ELSE index[c]]

\* logic.py:205-209: the order of the populate calls
\* (API清單, 輸出設定, IP權限設定, WebService, 參數驗證)
PopulateOrder == <<"API_list", "output_setting", "IP_permission", "WebService",
                   "param_validation">>

RECURSIVE PopulateAll(_, _, _)
PopulateAll(index, dfs, sheets) ==
    IF sheets = <<>> THEN index
    ELSE PopulateAll(populate_api_data(index, dfs[Head(sheets)], Head(sheets)), dfs, Tail(sheets))

Contains(s, c) == \E i \in 1..Len(s) : s[i] = c
FirstIndex(s, c) == CHOOSE i \in 1..Len(s) : s[i] = c /\ \A j \in 1..(i - 1) : s[j] # c

\* load_sql_properties where a key, once stored, is not overwritten
RECURSIVE load_sql_properties_first_wins(_, _)
load_sql_properties_first_wins(lines, sql_dict) ==
    IF lines = <<>> THEN sql_dict
    ELSE LET line == Head(lines) IN
         IF Contains(line, "=") /\ ~(Strip(line) # <<>> /\ Head(Strip(line)) = "#")
         THEN LET key == Strip(SubSeq(line, 1, FirstIndex(line, "=") - 1))
                  val == Strip(SubSeq(line, FirstIndex(line, "=") + 1, Len(line)))
              IN load_sql_properties_first_wins(Tail(lines),
                     [k \in DOMAIN sql_dict \cup {key} |->
                         IF k \in DOMAIN sql_dict THEN sql_dict[k] ELSE val])
         ELSE load_sql_properties_first_wins(Tail(lines), sql_dict)

\* logic.py:39-45: the lines of the file, each with its line break
RECURSIVE load_sql_properties(_, _)
load_sql_properties(lines, sql_dict) ==
    IF lines = <<>> THEN sql_dict
    ELSE LET line == Head(lines) IN
         IF Contains(line, "=") /\ ~(Strip(line) # <<>> /\ Head(Strip(line)) = "#")
         THEN LET key == Strip(SubSeq(line, 1, FirstIndex(line, "=") - 1))
                  val == Strip(SubSeq(line, FirstIndex(line, "=") + 1, Len(line)))
              IN load_sql_properties(Tail(lines),
                     [k \in DOMAIN sql_dict \cup {key} |-> IF k = key THEN val ELSE sql_dict[k]])
         ELSE load_sql_properties(Tail(lines), sql_dict)

(***************************************************************************)
(* What the database and the uploaded properties file may hold             *)
(***************************************************************************)
A1 == <<"A", "1">>
A2 == <<"A", "2">>
A3 == <<"A", "3">>
FI_1 == <<"F", "I", "_", "1">>
FI_2 == <<"F", "I", "_", "2">>

\* (batch code, batch description) of the flows: two flows share a
\* description, two descriptions share a flow code, one description is NULL
BatchPairs == { <<StrV(FI_1), StrV(<<"a">>)>>, <<StrV(FI_2), StrV(<<"a">>)>>,
                <<StrV(FI_2), StrV(<<"b">>)>>, <<StrV(FI_1), Null>> }
SeqValues == {IntV(1), IntV(2)}
OrderCodes == {StrV(A1), StrV(<<" ">>)}

HRow(pair, seq, code) ==
    [batch_code |-> pair[1], batch_desc |-> pair[2], API_seq |-> seq,
     API_code |-> code, API_desc |-> StrV(<<"d">>)]

HRows == {HRow(p, q, c) : p \in BatchPairs, q \in SeqValues, c \in OrderCodes}

\* Numeric value of a sequence cell, in tenths
NumKey(v) == IF v.t = "int" THEN 10 * v.n ELSE v.x10

\* logic.py:125: ORDER BY a.FLOW_HELP, CLASS_NUM (NULL sorts first)
SqlBefore(r1, r2) ==
    LET d1 == r1["batch_desc"]
        d2 == r2["batch_desc"]
    IN IF d1 = d2 THEN NumKey(r1["API_seq"]) <= NumKey(r2["API_seq"])
       ELSE ~NotNa(d1) \/ (NotNa(d2) /\ TextLess(d1.s, d2.s))

SqlOrdered(h) == \A i \in 1..(Len(h) - 1) : SqlBefore(h[i], h[i + 1])

HierarchyResults ==
    {h \in UNION {[1..n -> HRows] : n \in 0..MaxOrderRows} : SqlOrdered(h)}

Sheets == {"API_list", "output_setting", "IP_permission", "WebService", "param_validation"}
SubSheets == Sheets \ {"API_list"}

SectionOf(sheet_name) ==
    CHOOSE sec \in SeqRange(section_order) : sec.sheet_name = sheet_name

\* The cells the r-th row of an API holds: whole and fractional floats, NULL
\* and numeric text in the integer columns; text, '' and NULL elsewhere
IntegerCells == <<FltV(10), FltV(25), Null, StrV(<<"2">>)>>
TextCells == <<StrV(<<"x">>), StrV(<<>>), Null>>
CellOf(header, r) ==
    IF header \in IntegerHeaders THEN IntegerCells[((r - 1) % Len(IntegerCells)) + 1]
    ELSE TextCells[((r - 1) % Len(TextCells)) + 1]

CatRow(sheet_name, code, r) ==
    [h \in {"API_code"} \cup SeqRange(SectionOf(sheet_name).headers) |->
        IF h = "API_code" THEN StrV(code) ELSE CellOf(h, r)]

\* logic.py:129-142: the descriptor row of an API
ApiListRow(code, key) ==
    [API_code |-> StrV(code), API_brief |-> StrV(<<"b">>), API_desc |-> Null,
     API_behavior_type |-> StrV(<<"S", "Q", "L">>), db_conn_name |-> StrV(<<" ">>),
     exec_type |-> StrV(<<"x">>), syntax_key |-> key,
     auth_key |-> StrV(<<"K">>), is_encoded |-> StrV(<<"N">>)]

\* The uploaded properties file: key K with an escaped value, a comment line,
\* a line without '=' and a blank line
PropsLines == << <<"K", " ", "=", " ", "a", BS, "n", "b", BS, "=", NL>>,
                 <<"#", "Q", "=", "x", NL>>,
                 <<"Q", NL>>,
                 <<NL>> >>

KeyValues == {StrV(<<"K">>), StrV(<<"Q">>), StrV(<<" ">>), Null}

EmptyCats == [sh \in Sheets |-> <<>>]

PoorCats == [sh \in Sheets |->
                IF sh = "API_list" THEN <<ApiListRow(A1, StrV(<<"K">>))>>
                ELSE IF sh = "param_validation" THEN <<CatRow(sh, A1, 1)>>
                ELSE <<>>]

\* n[sh] rows of A1 followed by one row of A2 (ORDER BY 1,2); the ordering
\* lists A1 and A3, and A3 has no row in any result set
RichCats(n, descriptor) ==
    [sh \in Sheets |->
        IF sh = "API_list" THEN descriptor
        ELSE [r \in 1..n[sh] |-> CatRow(sh, A1, r)] \o <<CatRow(sh, A2, 1)>>]

\* No descriptor row, one row, or two rows of the same code
Descriptors == {<<>>} \cup {<<ApiListRow(A1, k)>> : k \in KeyValues}
               \cup {<<ApiListRow(A1, StrV(<<"K">>)), ApiListRow(A1, StrV(<<"Q">>))>>}

SectionHierarchy ==
    << HRow(<<StrV(FI_1), StrV(<<"a">>)>>, IntV(1), StrV(A1)),
       HRow(<<StrV(FI_1), StrV(<<"a">>)>>, IntV(2), StrV(A3)) >>

Database(codes, hierarchy, cats) ==
    [codes |-> codes, hierarchy |-> hierarchy, cats |-> cats, props |-> PropsLines]

\* The values a single ordering row may hold in API_seq (API順序) when the
\* column is not an integer column, and the API codes it may hold besides A1
OddSeqValues == {Null, FltV(20), FltV(25), StrV(<<>>), StrV(<<"x">>), StrV(<<"2">>),
                 StrV(<<"2", ".", "0">>)}
OddCodes == {StrV(A2), StrV(<<>>), Null}

\* Many orderings over a small index; the orderings of one odd row; one
\* ordering over many indexes; and the databases with no relevant code
DbChoices ==
    {Database(<<StrV(A1), StrV(A2), StrV(A1)>>, h, PoorCats) : h \in HierarchyResults}
    \cup {Database(<<StrV(A1)>>, <<HRow(<<StrV(FI_1), StrV(<<"a">>)>>, q, c)>>, PoorCats) :
             q \in OddSeqValues, c \in OddCodes}
    \cup {Database(<<StrV(A1), Null, StrV(A2)>>, SectionHierarchy, RichCats(n, d)) :
             n \in [SubSheets -> 0..MaxCatRows], d \in Descriptors}
    \cup {Database(c, <<>>, EmptyCats) : c \in {<<>>, <<Null>>}}

(***************************************************************************)
(* generate_api_doc (logic.py:56-438) and its caller (main.py:79-111)      *)
(***************************************************************************)
NoFile == [state |-> "absent", content |-> <<>>]
NoResponse == [kind |-> "none", status |-> 0, type |-> "", body |-> NoFile]

\* logic.py:129-193: the order of the five category queries
QueryOrder == <<"API_list", "output_setting", "IP_permission", "WebService",
                "param_validation">>

NextQuery == QueryOrder[Cardinality(DOMAIN cat_df) + 1]

InitPipe ==
    /\ db \in DbChoices
    /\ pc = "connect"
    /\ conn = "none"
    /\ exc = "none"
    /\ executed = <<>>
    /\ relevant_api_codes = <<>>
    /\ api_hierarchy_df = <<>>
    /\ cat_df = <<>>
    /\ api_data = <<>>
    /\ sql_map = <<>>
    /\ doc = <<>>
    /\ out_file = NoFile
    /\ response = NoResponse

IdlePipe ==
    /\ db = Database(<<>>, <<>>, EmptyCats)
    /\ pc = "idle"
    /\ conn = "none"
    /\ exc = "none"
    /\ executed = <<>>
    /\ relevant_api_codes = <<>>
    /\ api_hierarchy_df = <<>>
    /\ cat_df = <<>>
    /\ api_data = <<>>
    /\ sql_map = <<>>
    /\ doc = <<>>
    /\ out_file = NoFile
    /\ response = NoResponse

\* The exceptions a step can raise for reasons outside the program
Errors(step) ==
    CASE step = "connect" -> {"pyodbc.Error"}
      [] step \in {"query_codes", "query_hierarchy", "query_category"} ->
            {"pyodbc.Error", "DatabaseError"}
      [] step = "load_properties" -> {"FileNotFoundError"}
      [] step \in {"no_data_document", "load_template"} -> {"PackageNotFoundError"}
      [] step = "render" -> {"KeyError"}
      [] step \in {"no_data_save", "save"} -> {"PermissionError"}
      [] OTHER -> {}

\* A step of the try block raises: control goes to the except/finally clauses
\* (logic.py:422-438).  A failed save may leave a truncated file behind.
StepRaises ==
    /\ Errors(pc) # {}
    /\ \E e \in Errors(pc) : exc' = e
    /\ executed' = Append(executed, pc)
    /\ out_file' = IF pc \in {"no_data_save", "save"}
                   THEN [state |-> "partial", content |-> <<>>] ELSE out_file
    /\ pc' = "finally"
    /\ UNCHANGED <<db, conn, relevant_api_codes, api_hierarchy_df, cat_df, api_data,
                   sql_map, doc, response>>
    /\ UNCHANGED <<fmtVars, upVars>>

\* logic.py:84
Connect ==
    /\ pc = "connect"
    /\ conn' = "open"
    /\ executed' = Append(executed, pc)
    /\ pc' = "query_codes"
    /\ UNCHANGED <<db, exc, relevant_api_codes, api_hierarchy_df, cat_df, api_data,
                   sql_map, doc, out_file, response>>
    /\ UNCHANGED <<fmtVars, upVars>>

\* QueryCodes without the early return of logic.py:101-106
QueryCodesNoEarlyReturn ==
    /\ pc = "query_codes"
    /\ relevant_api_codes' = UniqueCodes(db.codes, {})
    /\ executed' = Append(executed, pc)
    /\ pc' = "query_hierarchy"
    /\ UNCHANGED <<db, conn, exc, api_hierarchy_df, cat_df, api_data, sql_map, doc,
                   out_file, response>>
    /\ UNCHANGED <<fmtVars, upVars>>

\* logic.py:96-101
QueryCodes ==
    /\ pc = "query_codes"
    /\ relevant_api_codes' = UniqueCodes(db.codes, {})
    /\ executed' = Append(executed, pc)
    /\ pc' = IF relevant_api_codes' = <<>> THEN "no_data_document" ELSE "query_hierarchy"
    /\ UNCHANGED <<db, conn, exc, api_hierarchy_df, cat_df, api_data, sql_map, doc,
                   out_file, response>>
    /\ UNCHANGED <<fmtVars, upVars>>

\* logic.py:103-104
NoDataDocument ==
    /\ pc = "no_data_document"
    /\ doc' = <<Para("", NoDataMessage)>>
    /\ executed' = Append(executed, pc)
    /\ pc' = "no_data_save"
    /\ UNCHANGED <<db, conn, exc, relevant_api_codes, api_hierarchy_df, cat_df, api_data,
                   sql_map, out_file, response>>
    /\ UNCHANGED <<fmtVars, upVars>>

\* logic.py:105-106
NoDataSave ==
    /\ pc = "no_data_save"
    /\ out_file' = [state |-> "saved", content |-> doc]
    /\ executed' = Append(executed, pc)
    /\ pc' = "finally"
    /\ UNCHANGED <<db, conn, exc, relevant_api_codes, api_hierarchy_df, cat_df, api_data,
                   sql_map, doc, response>>
    /\ UNCHANGED <<fmtVars, upVars>>

\* logic.py:114-126
QueryHierarchy ==
    /\ pc = "query_hierarchy"
    /\ api_hierarchy_df' = db.hierarchy
    /\ executed' = Append(executed, pc)
    /\ pc' = "query_category"
    /\ UNCHANGED <<db, conn, exc, relevant_api_codes, cat_df, api_data, sql_map, doc,
                   out_file, response>>
    /\ UNCHANGED <<fmtVars, upVars>>

\* logic.py:129-193: one of the five category queries
QueryCategory ==
    /\ pc = "query_category"
    /\ cat_df' = (NextQuery :> db.cats[NextQuery]) @@ cat_df
    /\ executed' = Append(executed, pc)
    /\ pc' = IF Cardinality(DOMAIN cat_df) + 1 = Len(QueryOrder)
             THEN "populate" ELSE "query_category"
    /\ UNCHANGED <<db, conn, exc, relevant_api_codes, api_hierarchy_df, api_data,
                   sql_map, doc, out_file, response>>
    /\ UNCHANGED <<fmtVars, upVars>>

\* logic.py:195-209
BuildIndex ==
    /\ pc = "populate"
    /\ api_data' = PopulateAll(<<>>, cat_df, PopulateOrder)
    /\ executed' = Append(executed, pc)
    /\ pc' = "load_properties"
    /\ UNCHANGED <<db, conn, exc, relevant_api_codes, api_hierarchy_df, cat_df, sql_map,
                   doc, out_file, response>>
    /\ UNCHANGED <<fmtVars, upVars>>

\* logic.py:212
LoadProperties ==
    /\ pc = "load_properties"
    /\ sql_map' = load_sql_properties(db.props, <<>>)
    /\ executed' = Append(executed, pc)
    /\ pc' = "load_template"
    /\ UNCHANGED <<db, conn, exc, relevant_api_codes, api_hierarchy_df, cat_df, api_data,
                   doc, out_file, response>>
    /\ UNCHANGED <<fmtVars, upVars>>

\* logic.py:216
LoadTemplate ==
    /\ pc = "load_template"
    /\ doc' = <<>>
    /\ executed' = Append(executed, pc)
    /\ pc' = "render"
    /\ UNCHANGED <<db, conn, exc, relevant_api_codes, api_hierarchy_df, cat_df, api_data,
                   sql_map, out_file, response>>
    /\ UNCHANGED <<fmtVars, upVars>>

\* logic.py:219-416: the batch loop; the ValueError of an API_seq cell ends it
RenderDocument ==
    /\ pc = "render"
    /\ LET r == Render(api_hierarchy_df, api_data, sql_map) IN
          /\ doc' = doc \o r.elems
          /\ exc' = IF r.ok THEN exc ELSE "ValueError"
          /\ pc' = IF r.ok THEN "save" ELSE "finally"
    /\ executed' = Append(executed, pc)
    /\ UNCHANGED <<db, conn, relevant_api_codes, api_hierarchy_df, cat_df, api_data,
                   sql_map, out_file, response>>
    /\ UNCHANGED <<fmtVars, upVars>>

\* logic.py:419
Save ==
    /\ pc = "save"
    /\ out_file' = [state |-> "saved", content |-> doc]
    /\ executed' = Append(executed, pc)
    /\ pc' = "finally"
    /\ UNCHANGED <<db, conn, exc, relevant_api_codes, api_hierarchy_df, cat_df, api_data,
                   sql_map, doc, response>>
    /\ UNCHANGED <<fmtVars, upVars>>

\* Finally without the close of logic.py:437
FinallyLeavesOpen ==
    /\ pc = "finally"
    /\ pc' = "exited"
    /\ UNCHANGED <<db, conn, exc, executed, relevant_api_codes, api_hierarchy_df, cat_df,
                   api_data, sql_map, doc, out_file, response>>
    /\ UNCHANGED <<fmtVars, upVars>>

\* An except clause that swallows the exception instead of re-raising it
FinallySwallows ==
    /\ pc = "finally"
    /\ conn' = IF conn # "none" THEN "closed" ELSE conn
    /\ exc' = "none"
    /\ pc' = "exited"
    /\ UNCHANGED <<db, executed, relevant_api_codes, api_hierarchy_df, cat_df,
                   api_data, sql_map, doc, out_file, response>>
    /\ UNCHANGED <<fmtVars, upVars>>

\* logic.py:422-438: the except clauses re-raise what they caught; the finally
\* clause closes the connection if there is one
Finally ==
    /\ pc = "finally"
    /\ conn' = IF conn # "none" THEN "closed" ELSE conn
    /\ pc' = "exited"
    /\ UNCHANGED <<db, exc, executed, relevant_api_codes, api_hierarchy_df, cat_df,
                   api_data, sql_map, doc, out_file, response>>
    /\ UNCHANGED <<fmtVars, upVars>>

\* main.py:91-111: the status and the type of the error answered for an exception
HttpError(e) ==
    CASE e = "pyodbc.Error" -> [status |-> 400, type |-> "DatabaseError"]
      [] e = "FileNotFoundError" -> [status |-> 400, type |-> "FileNotFound"]
      [] OTHER -> [status |-> 500, type |-> "UnknownError"]

\* main.py:79-111: upload_files answers with the file when generate_api_doc
\* returned and with an HTTP error when it raised
UploadResponds ==
    /\ pc = "exited"
    /\ response' = IF exc = "none"
                   THEN [kind |-> "file", status |-> 200, type |-> "", body |-> out_file]
                   ELSE [kind |-> "error", status |-> HttpError(exc).status,
                         type |-> HttpError(exc).type, body |-> NoFile]
    /\ pc' = "responded"
    /\ UNCHANGED <<db, conn, exc, executed, relevant_api_codes, api_hierarchy_df, cat_df,
                   api_data, sql_map, doc, out_file>>
    /\ UNCHANGED <<fmtVars, upVars>>

PipeNext ==
    \/ Connect \/ QueryCodes \/ NoDataDocument \/ NoDataSave \/ QueryHierarchy
    \/ QueryCategory \/ BuildIndex \/ LoadProperties \/ LoadTemplate \/ RenderDocument
    \/ Save \/ StepRaises \/ Finally \/ UploadResponds

IdleFmt ==
    /\ fmt_pc = "idle"
    /\ fmt_in = <<>>
    /\ fmt_out = <<>>

IdleUp ==
    /\ upc = <<>>
    /\ tmp_word = <<>>
    /\ tmp_props = <<>>
    /\ tmp_word_path = <<>>
    /\ tmp_props_path = <<>>
    /\ output_path = <<>>
    /\ fs = <<>>
    /\ made = 0
    /\ sent = <<>>

Init == InitPipe /\ IdleFmt /\ IdleUp
Next == PipeNext
Spec == Init /\ [][Next]_vars

(***************************************************************************)
(* Properties of one run                                                   *)
(***************************************************************************)
Last(q) == q[Len(q)]
Exited == pc \in {"exited", "responded"}
Failed == exc # "none"

\* The steps of a run that finds relevant codes, and of one that finds none
FullPath == <<"connect", "query_codes", "query_hierarchy", "query_category",
              "query_category", "query_category", "query_category", "query_category",
              "populate", "load_properties", "load_template", "render", "save">>
NoDataPath == <<"connect", "query_codes", "no_data_document", "no_data_save">>

IsPrefix(q, full) == Len(q) <= Len(full) /\ q = SubSeq(full, 1, Len(q))

\* C1: once generate_api_doc has opened the connection, every exit (normal
\* completion, the early return when no relevant code is found, any failure)
\* leaves the connection closed; the connection is absent at exit only when
\* the connect call itself failed.
C1_ConnectionClosedOnExit ==
    Exited =>
        /\ conn # "open"
        /\ conn = "none" <=> (executed = <<"connect">> /\ Failed)

\* C1 witness: a run that opened the connection, failed at the save and exited
C1_Witness ==
    /\ pc = "exited"
    /\ exc = "PermissionError"
    /\ Last(executed) = "save"
    /\ conn = "closed"

\* C4: a failing step ends the try block at once: the exception that leaves
\* generate_api_doc is the one that step raised, no step runs twice and none
\* runs after the failure, the output document was not persisted by the run,
\* and upload_files answers with an error.  A file is answered only when
\* every step succeeded and the document was persisted.
C4_FailurePropagates ==
    /\ Failed =>
        /\ exc \in Errors(Last(executed))
                   \cup (IF Last(executed) = "render" THEN {"ValueError"} ELSE {})
        /\ IsPrefix(executed, FullPath) \/ IsPrefix(executed, NoDataPath)
        /\ out_file.state # "saved"
        /\ pc \in {"finally", "exited", "responded"}
    /\ pc = "responded" /\ Failed =>
        /\ response.kind = "error"
        /\ response.status \in {400, 500}
    /\ response.kind = "file" =>
        /\ ~Failed
        /\ executed \in {FullPath, NoDataPath}
        /\ response.body = [state |-> "saved", content |-> doc]

\* C4 witness: the save failed, and the endpoint answered with an error
C4_Witness ==
    /\ pc = "responded"
    /\ exc = "PermissionError"
    /\ Last(executed) = "save"
    /\ out_file.state = "partial"
    /\ response.kind = "error"

\* C9: when the relevant-code query returns no non-null code, the run executes
\* connect, the query, the "no data" paragraph and the save and nothing else:
\* no further query, no index, no properties, no batch loop; and when it
\* exits normally the document holds exactly the "no data" paragraph (no
\* table, no heading) and has been persisted.
C9_NoRelevantCodes ==
    UniqueCodes(db.codes, {}) = <<>> =>
        /\ IsPrefix(executed, NoDataPath)
        /\ api_hierarchy_df = <<>> /\ cat_df = <<>> /\ api_data = <<>> /\ sql_map = <<>>
        /\ Exited /\ ~Failed =>
            /\ executed = NoDataPath
            /\ doc = <<Para("", NoDataMessage)>>
            /\ out_file = [state |-> "saved", content |-> doc]

\* C9 witness: the query returned one NULL code and the run returned
C9_Witness ==
    /\ db.codes = <<Null>>
    /\ pc = "exited"
    /\ ~Failed
    /\ out_file.state = "saved"

(***************************************************************************)
(* Properties of the rendered document                                     *)
(***************************************************************************)
\* The batch loop ran to its end in this run
Rendered == \E i \in 1..Len(executed) : executed[i] = "render" /\ (i < Len(executed) \/ ~Failed)

RECURSIVE IndicesFrom(_, _, _)
IndicesFrom(elems, style, i) ==
    IF i > Len(elems) THEN <<>>
    ELSE (IF elems[i].style = style THEN <<i>> ELSE <<>>) \o IndicesFrom(elems, style, i + 1)

\* The stretches of elems that start at a paragraph of the given style
SegmentsOf(elems, style) ==
    LET ix == IndicesFrom(elems, style, 1) IN
    [k \in 1..Len(ix) |->
        SubSeq(elems, ix[k], IF k < Len(ix) THEN ix[k + 1] - 1 ELSE Len(elems))]

\* The ordering rows of a batch, in result-set order: those whose batch code
\* and batch description both equal the batch's (NULL equals nothing)
RECURSIVE RowsOfBatch(_, _)
RowsOfBatch(rows, pair) ==
    IF rows = <<>> THEN <<>>
    ELSE (IF Head(rows)["batch_code"] = pair[1] /\ Head(rows)["batch_desc"] = pair[2]
             /\ pair[1] # Null /\ pair[2] # Null
          THEN <<Head(rows)>> ELSE <<>>) \o RowsOfBatch(Tail(rows), pair)

\* The non-blank API codes of rows, in order
RECURSIVE NonBlankCodes(_)
NonBlankCodes(rows) ==
    IF rows = <<>> THEN <<>>
    ELSE (IF Head(rows)["API_code"] # Null /\ Strip(PyStr(Head(rows)["API_code"])) # <<>>
          THEN <<PyStr(Head(rows)["API_code"])>> ELSE <<>>) \o NonBlankCodes(Tail(rows))

DistinctPairs(rows) == {<<rows[i]["batch_code"], rows[i]["batch_desc"]>> : i \in 1..Len(rows)}

BatchTitle(pair) == PyStr(pair[1]) \o <<" ", "(">> \o PyStr(pair[2]) \o <<")">>

\* The batch a batch heading of the document stands for
PairOfTitle(text) == CHOOSE pair \in DistinctPairs(api_hierarchy_df) : BatchTitle(pair) = text

\* The rows of q in ascending order of the API sequence value, rows of equal
\* value in their order in q
RECURSIVE SortedBySeq(_)
SortedBySeq(q) ==
    IF q = <<>> THEN <<>>
    ELSE LET m == CHOOSE i \in 1..Len(q) :
                     /\ \A j \in 1..Len(q) : NumKey(q[i]["API_seq"]) <= NumKey(q[j]["API_seq"])
                     /\ \A j \in 1..(i - 1) : NumKey(q[j]["API_seq"]) > NumKey(q[i]["API_seq"])
         IN <<q[m]>> \o SortedBySeq(SubSeq(q, 1, m - 1) \o SubSeq(q, m + 1, Len(q)))

NumericSeq(rows) == \A i \in 1..Len(rows) : rows[i]["API_seq"].t \in {"int", "float"}

\* The texts of the paragraphs of a style, in order
TextsOf(elems, style) ==
    LET ix == IndicesFrom(elems, style, 1) IN [k \in 1..Len(ix) |-> elems[ix[k]].text]

\* C8: the document has one batch section per distinct (batch code, batch
\* description) pair of the ordering rows; the sections come in ascending
\* order of batch description; and within each batch the rows of the API-list
\* table and the detail sections are those of the batch's ordering rows taken
\* in ascending order of the API sequence value.
C8_BatchOrder ==
    (Rendered /\ NumericSeq(api_hierarchy_df)) =>
        LET batches == SegmentsOf(doc, "Heading 2")
            titles == TextsOf(doc, "Heading 2")
            pairs == DistinctPairs(api_hierarchy_df)
        IN /\ Len(titles) = Cardinality(pairs)
           /\ SeqRange(titles) = {BatchTitle(pair) : pair \in pairs}
           /\ \A k \in 1..Len(titles), l \in 1..Len(titles) :
                  LET dk == PairOfTitle(titles[k])[2]
                      dl == PairOfTitle(titles[l])[2]
                  IN (k < l /\ dk # Null /\ dl # Null) => ~TextLess(dl.s, dk.s)
           /\ \A k \in 1..Len(batches) :
                  LET rows == SortedBySeq(RowsOfBatch(api_hierarchy_df, PairOfTitle(titles[k])))
                  IN rows # <<>> =>
                        /\ Len(batches[k][2].rows) = Len(rows)
                        /\ \A r \in 1..Len(rows) :
                               /\ batches[k][2].rows[r][1] = FormatApiSeq(rows[r]["API_seq"]).text
                               /\ batches[k][2].rows[r][2] = FormatText(rows[r]["API_code"])
                        /\ TextsOf(batches[k], "Heading 4") = NonBlankCodes(rows)

\* C8 witness: a batch of two APIs with different sequence values, followed
\* by the batch of the later description
C8_Witness ==
    /\ Rendered
    /\ Len(api_hierarchy_df) = 3
    /\ api_hierarchy_df[1]["batch_desc"] = StrV(<<"a">>)
    /\ api_hierarchy_df[2]["batch_desc"] = StrV(<<"a">>)
    /\ api_hierarchy_df[3]["batch_desc"] = StrV(<<"b">>)
    /\ api_hierarchy_df[1]["API_seq"] = IntV(1)
    /\ api_hierarchy_df[2]["API_seq"] = IntV(2)
    /\ TextsOf(doc, "Heading 2") = <<FI_2 \o <<" ", "(", "a", ")">>, FI_2 \o <<" ", "(", "b", ")">>>>
    /\ TextsOf(doc, "Heading 4") = <<A1, A1, A1>>

\* The kind, style and (for a heading) text a detail section must show
SectionShape(code) ==
    <<[k |-> "p", style |-> "Heading 4", text |-> code, headers |-> <<>>],
      [k |-> "tbl", style |-> "Table Grid", text |-> <<>>, headers |-> headers_api_list],
      [k |-> "p", style |-> "", text |-> <<>>, headers |-> <<>>]>>
    \o [n \in 1..(3 * Len(section_order)) |->
          LET sec == section_order[((n - 1) \div 3) + 1] IN
          CASE n % 3 = 1 -> [k |-> "p", style |-> "Heading 5", text |-> <<sec.sheet_name>>,
                             headers |-> <<>>]
            [] n % 3 = 2 -> [k |-> "tbl", style |-> "Table Grid", text |-> <<>>,
                             headers |-> sec.headers]
            [] OTHER -> [k |-> "p", style |-> "", text |-> <<>>, headers |-> <<>>]]

ShapeOf(elems) ==
    [n \in 1..Len(elems) |->
        [k |-> elems[n].k, style |-> elems[n].style, text |-> elems[n].text,
         headers |-> elems[n].headers]]

\* The shapes the detail sections of the given codes must show, in order
RECURSIVE SectionShapes(_)
SectionShapes(codes) ==
    IF codes = <<>> THEN <<>> ELSE SectionShape(Head(codes)) \o SectionShapes(Tail(codes))

\* C10: within a batch (the ordering rows whose batch code and description
\* equal the batch's), the rows with a non-blank API code produce, in row
\* order, one detail section each: a level-4 heading with the code, one detail
\* table, and the four sub-sections param_validation, WebService,
\* IP_permission, output_setting in that order; rows with a NULL or blank code
\* produce nothing, and a code that recurs produces one section per occurrence.
C10_DetailSections ==
    Rendered =>
        LET batches == SegmentsOf(doc, "Heading 2")
            titles == TextsOf(doc, "Heading 2")
        IN \A k \in 1..Len(batches) :
              LET rows == RowsOfBatch(api_hierarchy_df, PairOfTitle(titles[k]))
              IN /\ Len(batches[k]) >= 3
                 /\ ShapeOf(SubSeq(batches[k], 4, Len(batches[k])))
                        = SectionShapes(NonBlankCodes(rows))

\* C10 witness: a batch of three rows, the middle one with a blank code: two
\* detail sections of the same code
C10_Witness ==
    /\ Rendered
    /\ Len(api_hierarchy_df) = 3
    /\ Len(TextsOf(doc, "Heading 2")) = 1
    /\ api_hierarchy_df[1]["batch_desc"] # Null
    /\ api_hierarchy_df[1]["API_code"] = StrV(A1)
    /\ api_hierarchy_df[2]["API_code"] = StrV(<<" ">>)
    /\ api_hierarchy_df[3]["API_code"] = StrV(A1)
    /\ TextsOf(doc, "Heading 4") = <<A1, A1>>
    /\ Len(doc) = 3 + 2 * 15

\* C5: in every detail section and for each of the four sub-sections: when
\* the hierarchy index holds a non-empty row-set for the API code and the
\* category, the table has one data row per row of the row-set, in row-set
\* order; when the code is absent from the index, the category is absent or
\* the row-set is empty, the table has exactly one data row, with as many
\* cells as the section has columns, each the placeholder.
C5_SectionRows ==
    Rendered =>
        LET apis == SegmentsOf(doc, "Heading 4") IN
        \A a \in 1..Len(apis), n \in 1..Len(section_order) :
            LET code == apis[a][1].text
                sec == section_order[n]
                tbl == apis[a][3 * n + 2]
                held == /\ code \in DOMAIN api_data
                        /\ sec.sheet_name \in DOMAIN api_data[code]
                        /\ api_data[code][sec.sheet_name] # <<>>
            IN IF held
               THEN LET rowset == api_data[code][sec.sheet_name] IN
                    /\ Len(tbl.rows) = Len(rowset)
                    /\ \A r \in 1..Len(rowset) :
                           /\ Len(tbl.rows[r]) = Len(sec.headers)
                           /\ \A j \in 1..Len(sec.headers) :
                                  tbl.rows[r][j] = FormatCell(sec.headers[j],
                                                              RowGet(rowset[r], sec.headers[j]))
               ELSE /\ Len(tbl.rows) = 1
                    /\ Len(tbl.rows[1]) = Len(sec.headers)
                    /\ \A j \in 1..Len(sec.headers) : tbl.rows[1][j] = DEFAULT_NAN_DISPLAY

\* C5 witness: an API with two parameter-validation rows and no WebService
\* category, next to an API absent from the index
C5_Witness ==
    /\ Rendered
    /\ TextsOf(doc, "Heading 4") = <<A1, A3>>
    /\ A1 \in DOMAIN api_data
    /\ A3 \notin DOMAIN api_data
    /\ "param_validation" \in DOMAIN api_data[A1]
    /\ Len(api_data[A1]["param_validation"]) = 2
    /\ "WebService" \notin DOMAIN api_data[A1]
    /\ Len(doc[8].rows) = 2
    /\ doc[8].rows[1] # doc[8].rows[2]
    /\ doc[11].rows = <<PlaceholderRow(5)>>
    /\ doc[23].rows = <<PlaceholderRow(4)>>

(***************************************************************************)
(* The formatting rules applied to one value                               *)
(***************************************************************************)
Texts(alphabet, n) == UNION {[1..k -> alphabet] : k \in 0..n}

FmtAlphabet == {"2", "0", ".", "5", "a", " "}
EscAlphabet == {BS, "n", "t", "=", "x"}

FmtValues ==
    {Null} \cup {IntV(n) : n \in 0..MaxNum}
           \cup {FltV(x) : x \in 0..(10 * MaxNum + 9)}
           \cup {StrV(t) : t \in Texts(FmtAlphabet, MaxLen)}

\* The syntax keys of a descriptor and the maps the properties loader returns
\* (its keys and values are stripped)
SyntaxKeys == {Null, StrV(<<>>), StrV(<<" ">>), StrV(<<"K">>), StrV(<<"Q">>),
               StrV(<<" ", "K">>), IntV(1)}
SyntaxMaps ==
    {<<>>} \cup {(<<"K">> :> v) : v \in Texts(EscAlphabet, MaxLen)}
           \cup {(<<"K">> :> <<"x">>) @@ (<<"1">> :> v) : v \in Texts(EscAlphabet, 1)}

InitFmt ==
    /\ fmt_pc = "input"
    /\ fmt_in = [op |-> "none", header |-> "", value |-> Null, map |-> <<>>]
    /\ fmt_out = [ok |-> TRUE, text |-> <<>>]

\* logic.py:391-405: a cell of a sub-section table
FormatSectionCell ==
    /\ fmt_pc = "input"
    /\ \E header \in IntegerHeaders \cup {"desc"}, value \in FmtValues :
          /\ fmt_in' = [op |-> "cell", header |-> header, value |-> value, map |-> <<>>]
          /\ fmt_out' = [ok |-> TRUE, text |-> FormatCell(header, value)]
    /\ fmt_pc' = "done"
    /\ UNCHANGED <<pipeVars, upVars>>

\* logic.py:264-269: the API_seq cell of the API-list table
FormatApiSeqCell ==
    /\ fmt_pc = "input"
    /\ \E value \in FmtValues :
          /\ fmt_in' = [op |-> "cell", header |-> "API_seq", value |-> value, map |-> <<>>]
          /\ fmt_out' = FormatApiSeq(value)
    /\ fmt_pc' = "done"
    /\ UNCHANGED <<pipeVars, upVars>>

\* logic.py:322-338: the value of the syntax row
ResolveSyntaxRow ==
    /\ fmt_pc = "input"
    /\ \E key \in SyntaxKeys, map \in SyntaxMaps :
          /\ fmt_in' = [op |-> "syntax", header |-> "syntax", value |-> key, map |-> map]
          /\ fmt_out' = [ok |-> TRUE, text |-> ResolveSyntax(key, map)]
    /\ fmt_pc' = "done"
    /\ UNCHANGED <<pipeVars, upVars>>

FmtNext == FormatSectionCell \/ FormatApiSeqCell \/ ResolveSyntaxRow

FmtInit == IdlePipe /\ InitFmt /\ IdleUp
SpecFmt == FmtInit /\ [][FmtNext]_vars

\* The classes of values C6 speaks of
WholeNumber(v) == v.t = "int" \/ (v.t = "float" /\ v.x10 % 10 = 0)
WholeOf(v) == IF v.t = "int" THEN v.n ELSE v.x10 \div 10
NonWholeNumber(v) == v.t = "float" /\ v.x10 % 10 # 0
NullOrBlank(v) == v = Null \/ (v.t = "str" /\ \A i \in 1..Len(v.s) : v.s[i] \in Whitespace)
NonNumeric(v) ==
    /\ v.t = "str"
    /\ ~NullOrBlank(v)
    /\ \E i \in 1..Len(Strip(v.s)) : ~IsDigit(Strip(v.s)[i]) /\ Strip(v.s)[i] # "."

\* C6 (as claimed): in each of the columns seq, node_level and API_seq (序,
\* 節點階層, API順序) a whole number is shown as its integer string, a
\* non-whole or non-numeric value as its literal string, and NULL or blank as
\* the placeholder.
C6_SequenceColumns ==
    (fmt_pc = "done" /\ fmt_in.header \in {"seq", "node_level", "API_seq"}) =>
        LET v == fmt_in.value IN
        /\ WholeNumber(v) => (fmt_out.ok /\ fmt_out.text = StrOfNat(WholeOf(v)))
        /\ (NonWholeNumber(v) \/ NonNumeric(v)) => (fmt_out.ok /\ fmt_out.text = PyStr(v))
        /\ NullOrBlank(v) => (fmt_out.ok /\ fmt_out.text = DEFAULT_NAN_DISPLAY)

\* Decoding in one pass from the left: a backslash followed by n, t or = is
\* one escape
RECURSIVE DecodeScan(_)
DecodeScan(text) ==
    IF text = <<>> THEN <<>>
    ELSE IF Len(text) >= 2 /\ text[1] = BS /\ text[2] \in {"n", "t", "="}
         THEN <<(CASE text[2] = "n" -> NL [] text[2] = "t" -> TAB [] OTHER -> "=")>>
              \o DecodeScan(SubSeq(text, 3, Len(text)))
         ELSE <<text[1]>> \o DecodeScan(Tail(text))

BlankKey(key) == key = Null \/ \A i \in 1..Len(PyStr(key)) : PyStr(key)[i] \in Whitespace

\* C7 (as claimed): the syntax row shows the decoded Syntax Map value of the
\* descriptor's syntax key, and the "not found" sentinel when the key is
\* blank, NULL or not in the map.
C7_SyntaxRowAsClaimed ==
    (fmt_pc = "done" /\ fmt_in.op = "syntax") =>
        IF BlankKey(fmt_in.value) \/ PyStr(fmt_in.value) \notin DOMAIN fmt_in.map
        THEN fmt_out.text = DEFAULT_SQL_NOT_FOUND
        ELSE fmt_out.text = DecodeScan(fmt_in.map[PyStr(fmt_in.value)])

\* C7 (amended): the syntax row shows the decoded Syntax Map value of the
\* descriptor's syntax key; the "not found" sentinel when the key is neither
\* NULL nor blank and is not in the map; and the placeholder when the key is
\* NULL or blank.
C7_SyntaxRow ==
    (fmt_pc = "done" /\ fmt_in.op = "syntax") =>
        IF BlankKey(fmt_in.value) THEN fmt_out.text = DEFAULT_NAN_DISPLAY
        ELSE IF PyStr(fmt_in.value) \notin DOMAIN fmt_in.map
             THEN fmt_out.text = DEFAULT_SQL_NOT_FOUND
             ELSE fmt_out.text = DecodeScan(fmt_in.map[PyStr(fmt_in.value)])

\* C7 witness: a key of the map whose value holds the three escapes
C7_Witness ==
    /\ fmt_pc = "done"
    /\ fmt_in.op = "syntax"
    /\ fmt_in.value = StrV(<<"K">>)
    /\ fmt_in.map = (<<"K">> :> <<BS, "n", BS, "=">>)
    /\ fmt_out.text = <<NL, "=">>

(***************************************************************************)
(* upload_files under concurrent requests (main.py:31-129)                 *)
(*                                                                         *)
(* The handler is a coroutine: it runs without interruption between its    *)
(* awaits (main.py:56, 65), and the file of a FileResponse is read when    *)
(* the response is sent, after the handler has returned.                   *)
(***************************************************************************)
Requests == 1..NumRequests

NoPath == <<"none", 0>>
\* NamedTemporaryFile: a name no other file has
TmpPath(n) == <<"tmp", n>>
\* main.py:73-74: the fixed file name in the directory of the temporary files
\* (API_規格書.docx)
OutputPath == <<"API_spec.docx", 0>>

Paths == {TmpPath(n) : n \in 1..(2 * NumRequests)} \cup {OutputPath}

Absent == [state |-> "absent", by |-> 0, kind |-> ""]
FileOf(r, kind) == [state |-> "file", by |-> r, kind |-> kind]
NotSent == [kind |-> "none", status |-> 0, body |-> Absent]

\* os.remove(path) guarded by path and path.exists() (main.py:114-125)
Remove(files, path) ==
    IF path # NoPath /\ files[path].state = "file"
    THEN [files EXCEPT ![path] = Absent] ELSE files

UpInit ==
    /\ upc = [r \in Requests |-> "start"]
    /\ tmp_word = [r \in Requests |-> NoPath]
    /\ tmp_props = [r \in Requests |-> NoPath]
    /\ tmp_word_path = [r \in Requests |-> NoPath]
    /\ tmp_props_path = [r \in Requests |-> NoPath]
    /\ output_path = [r \in Requests |-> NoPath]
    /\ fs = [p \in Paths |-> Absent]
    /\ made = 0
    /\ sent = [r \in Requests |-> NotSent]

\* main.py:55-56: the temporary file of the template is created, then the
\* handler awaits the upload
OpenWordTemp ==
    \E r \in Requests :
        /\ upc[r] = "start"
        /\ made' = made + 1
        /\ tmp_word' = [tmp_word EXCEPT ![r] = TmpPath(made + 1)]
        /\ fs' = [fs EXCEPT ![TmpPath(made + 1)] = FileOf(r, "word")]
        /\ upc' = [upc EXCEPT ![r] = "read_word"]
        /\ UNCHANGED <<tmp_props, tmp_word_path, tmp_props_path, output_path, sent>>
        /\ UNCHANGED <<pipeVars, fmtVars>>

\* main.py:57-65: an empty template raises HTTPException(400), which passes
\* the except clause of main.py:102 and the finally clause with tmp_word_path
\* still None; otherwise the path is kept, the temporary file of the
\* properties is created and the handler awaits the second upload
StoreWord ==
    \E r \in Requests, empty \in BOOLEAN :
        /\ upc[r] = "read_word"
        /\ IF empty
           THEN /\ sent' = [sent EXCEPT ![r] = [kind |-> "error", status |-> 400, body |-> Absent]]
                /\ fs' = Remove(Remove(fs, tmp_word_path[r]), tmp_props_path[r])
                /\ upc' = [upc EXCEPT ![r] = "done"]
                /\ UNCHANGED <<tmp_word_path, tmp_props, made>>
           ELSE /\ tmp_word_path' = [tmp_word_path EXCEPT ![r] = tmp_word[r]]
                /\ made' = made + 1
                /\ tmp_props' = [tmp_props EXCEPT ![r] = TmpPath(made + 1)]
                /\ fs' = [fs EXCEPT ![TmpPath(made + 1)] = FileOf(r, "props")]
                /\ upc' = [upc EXCEPT ![r] = "read_props"]
                /\ UNCHANGED sent
        /\ UNCHANGED <<tmp_word, tmp_props_path, output_path>>
        /\ UNCHANGED <<pipeVars, fmtVars>>

\* How a call of generate_api_doc ends: the document saved, a pyodbc.Error
\* (main.py:91), another exception before the save (main.py:106), or an
\* exception of the save that leaves a truncated file
Outcomes == {"saved", "pyodbc.Error", "Exception", "Exception_in_save"}

\* main.py:66-125: an empty properties file raises HTTPException(400);
\* otherwise generate_api_doc runs (it has no await) and the handler returns
\* the FileResponse or raises the HTTPException of main.py:91-111.  In every
\* case the finally clause removes the files tmp_word_path and tmp_props_path
\* name; it does not remove the file at output_path.
StoreProps ==
    \E r \in Requests, empty \in BOOLEAN, outcome \in Outcomes :
        /\ upc[r] = "read_props"
        /\ IF empty
           THEN /\ outcome = "Exception"
                /\ sent' = [sent EXCEPT ![r] = [kind |-> "error", status |-> 400, body |-> Absent]]
                /\ fs' = Remove(Remove(fs, tmp_word_path[r]), tmp_props_path[r])
                /\ upc' = [upc EXCEPT ![r] = "done"]
                /\ UNCHANGED <<tmp_props_path, output_path>>
           ELSE /\ tmp_props_path' = [tmp_props_path EXCEPT ![r] = tmp_props[r]]
                /\ output_path' = [output_path EXCEPT ![r] = OutputPath]
                /\ LET written ==
                          CASE outcome = "saved" -> [fs EXCEPT ![OutputPath] = FileOf(r, "output")]
                            [] outcome = "Exception_in_save" ->
                                   [fs EXCEPT ![OutputPath] = FileOf(r, "truncated")]
                            [] OTHER -> fs
                   IN fs' = Remove(Remove(written, tmp_word_path[r]), tmp_props_path'[r])
                /\ IF outcome = "saved"
                   THEN /\ upc' = [upc EXCEPT ![r] = "send"]
                        /\ UNCHANGED sent
                   ELSE /\ upc' = [upc EXCEPT ![r] = "done"]
                        /\ sent' = [sent EXCEPT ![r] =
                                       [kind |-> "error",
                                        status |-> IF outcome = "pyodbc.Error" THEN 400 ELSE 500,
                                        body |-> Absent]]
        /\ UNCHANGED <<tmp_word, tmp_props, tmp_word_path, made>>
        /\ UNCHANGED <<pipeVars, fmtVars>>

\* main.py:89: the FileResponse is sent: the file at output_path is read now
SendFile ==
    \E r \in Requests :
        /\ upc[r] = "send"
        /\ sent' = [sent EXCEPT ![r] = [kind |-> "file", status |-> 200,
                                        body |-> fs[output_path[r]]]]
        /\ upc' = [upc EXCEPT ![r] = "done"]
        /\ UNCHANGED <<tmp_word, tmp_props, tmp_word_path, tmp_props_path, output_path,
                       fs, made>>
        /\ UNCHANGED <<pipeVars, fmtVars>>

UpNext == OpenWordTemp \/ StoreWord \/ StoreProps \/ SendFile

UploadInit == IdlePipe /\ IdleFmt /\ UpInit
SpecUpload == UploadInit /\ [][UpNext]_vars

\* C2 (as claimed): the temporary artifacts of concurrent requests never
\* share storage: no two requests name the same file for the template, the
\* properties or the generated document, and the document a request is
\* answered with is the one that request generated.
C2_RequestIsolation ==
    /\ \A r1 \in Requests, r2 \in Requests :
          (r1 # r2) =>
              /\ tmp_word[r1] = NoPath \/ tmp_word[r1] # tmp_word[r2]
              /\ tmp_props[r1] = NoPath \/ tmp_props[r1] # tmp_props[r2]
    /\ \A r \in Requests :
          sent[r].kind = "file" => sent[r].body = FileOf(r, "output")

\* C3 (as claimed): once a request has been answered, with the file or with
\* an error, none of the temporary artifacts it created is left.
C3_ArtifactsRemoved ==
    \A r \in Requests :
        upc[r] = "done" =>
            /\ tmp_word[r] # NoPath => fs[tmp_word[r]].state = "absent"
            /\ tmp_props[r] # NoPath => fs[tmp_props[r]].state = "absent"
            /\ fs[OutputPath].by # r

(***************************************************************************)
(* Properties of the detail table                                          *)
(***************************************************************************)
\* C11: the detail table of an API whose descriptor row-set is present has
\* exactly ten data rows, numbered 1 to 10 and naming the parameters of
\* param_names in order; each of the first nine values is the cell of that
\* name in the first descriptor row, or the placeholder when the cell is NULL,
\* blank or the column is missing.  When the descriptor row-set is absent or
\* empty the table has exactly one row of three placeholders.
C11_DetailTable ==
    Rendered =>
        LET apis == SegmentsOf(doc, "Heading 4") IN
        \A a \in 1..Len(apis) :
            LET code == apis[a][1].text
                tbl == apis[a][2]
                present == /\ code \in DOMAIN api_data
                           /\ "API_list" \in DOMAIN api_data[code]
                           /\ api_data[code]["API_list"] # <<>>
            IN IF present
               THEN LET first == api_data[code]["API_list"][1] IN
                    /\ Len(tbl.rows) = 10
                    /\ Len(param_names) = 10
                    /\ param_names[10] = "syntax"
                    /\ \A i \in 1..10 :
                           /\ Len(tbl.rows[i]) = 3
                           /\ tbl.rows[i][1] = StrOfNat(i)
                           /\ tbl.rows[i][2] = <<param_names[i]>>
                    /\ \A i \in 1..9 :
                           tbl.rows[i][3] =
                               IF param_names[i] \notin DOMAIN first
                                  \/ NullOrBlank(first[param_names[i]])
                               THEN DEFAULT_NAN_DISPLAY
                               ELSE PyStr(first[param_names[i]])
               ELSE tbl.rows = <<PlaceholderRow(3)>>

\* C11 witness: an API with two descriptor rows, whose description is NULL and
\* whose connection name is blank, next to an API without descriptor
C11_Witness ==
    /\ Rendered
    /\ TextsOf(doc, "Heading 4") = <<A1, A3>>
    /\ A1 \in DOMAIN api_data
    /\ "API_list" \in DOMAIN api_data[A1]
    /\ Len(api_data[A1]["API_list"]) = 2
    /\ Len(doc[5].rows) = 10
    /\ doc[5].rows[2][3] = <<"b">>
    /\ doc[5].rows[3][3] = DEFAULT_NAN_DISPLAY
    /\ doc[5].rows[5][3] = DEFAULT_NAN_DISPLAY
    /\ doc[5].rows[7][3] = <<"K">>
    /\ doc[20].rows = <<PlaceholderRow(3)>>

(***************************************************************************)
(* load_sql_properties applied to one file (logic.py:30-54)                *)
(***************************************************************************)
\* The lines a properties file may hold, each as the iteration over the file
\* yields it: entries of the keys K and Q with spaces around the parts, a
\* value holding '=', an empty key, an empty value, comments, a line without
\* '=', blank lines, and a last line without line break
PropsFileLines ==
    { <<"K", "=", "a", NL>>,
      <<" ", "K", " ", "=", " ", "b", " ", NL>>,
      <<"K", "=", "a", "=", "b", NL>>,
      <<"Q", "=", NL>>,
      <<"=", "a", NL>>,
      <<"#", "K", "=", "c", NL>>,
      <<" ", "#", "K", "=", "c", NL>>,
      <<"Q", NL>>,
      <<NL>>,
      <<" ", TAB, NL>>,
      <<"Q", "=", "b">> }

PropsFiles == UNION {[1..n -> PropsFileLines] : n \in 0..MaxPropsLines}

InitProps ==
    /\ fmt_pc = "input"
    /\ fmt_in = [op |-> "none", exists |-> TRUE, lines |-> <<>>]
    /\ fmt_out = [ok |-> TRUE, exc |-> "none", map |-> <<>>]

\* logic.py:36-54: open raises FileNotFoundError for a missing file, which the
\* except clause of logic.py:46-49 re-raises; otherwise the lines are read and
\* the dictionary is returned
LoadSqlProperties ==
    /\ fmt_pc = "input"
    /\ \E exists \in BOOLEAN, lines \in PropsFiles :
          /\ exists \/ lines = <<>>
          /\ fmt_in' = [op |-> "load", exists |-> exists, lines |-> lines]
          /\ fmt_out' = IF exists
                        THEN [ok |-> TRUE, exc |-> "none",
                              map |-> load_sql_properties(lines, <<>>)]
                        ELSE [ok |-> FALSE, exc |-> "FileNotFoundError", map |-> <<>>]
    /\ fmt_pc' = "done"
    /\ UNCHANGED <<pipeVars, upVars>>

PropsNext == LoadSqlProperties

PropsInit == IdlePipe /\ InitProps /\ IdleUp
SpecProps == PropsInit /\ [][PropsNext]_vars

HasEquals(line) == \E i \in 1..Len(line) : line[i] = "="
IsComment(line) == Strip(line) # <<>> /\ Strip(line)[1] = "#"
IsBlank(line) == Strip(line) = <<>>
EqualsAt(line) ==
    IF HasEquals(line)
    THEN CHOOSE i \in 1..Len(line) : line[i] = "=" /\ \A j \in 1..(i - 1) : line[j] # "="
    ELSE Len(line) + 1
\* The trimmed texts before and after the first '=' of a line
KeyOf(line) == Strip(SubSeq(line, 1, EqualsAt(line) - 1))
ValOf(line) == Strip(SubSeq(line, EqualsAt(line) + 1, Len(line)))

\* The map that holds, for the lines with the given indices, each key with the
\* value of its last line
MapOfLines(lines, contributing) ==
    [k \in {KeyOf(lines[i]) : i \in contributing} |->
        LET last == CHOOSE i \in contributing :
                        /\ KeyOf(lines[i]) = k
                        /\ \A j \in contributing : KeyOf(lines[j]) = k => j <= i
        IN ValOf(lines[last])]

\* C12 (as claimed): the map holds an entry for every line that is neither
\* blank after trimming nor a comment: the trimmed texts before and after its
\* first '=', a later line of a key overwriting the earlier one; a missing
\* file makes the call fail with the not-found error.
C12_PropertiesMapAsClaimed ==
    (fmt_pc = "done" /\ fmt_in.op = "load") =>
        IF fmt_in.exists
        THEN /\ fmt_out.ok
             /\ fmt_out.map =
                   MapOfLines(fmt_in.lines,
                              {i \in 1..Len(fmt_in.lines) :
                                  ~IsBlank(fmt_in.lines[i]) /\ ~IsComment(fmt_in.lines[i])})
        ELSE ~fmt_out.ok /\ fmt_out.exc = "FileNotFoundError"

\* C12: the map holds an entry for every line that contains '=' and is not a
\* comment (its trimmed text does not begin with '#'): the trimmed texts
\* before and after its first '=', a later line of a key overwriting the
\* earlier one; every other line contributes nothing; a missing file makes
\* the call fail with the not-found error and no map is returned.
C12_PropertiesMap ==
    (fmt_pc = "done" /\ fmt_in.op = "load") =>
        IF fmt_in.exists
        THEN /\ fmt_out.ok
             /\ fmt_out.map =
                   MapOfLines(fmt_in.lines,
                              {i \in 1..Len(fmt_in.lines) :
                                  HasEquals(fmt_in.lines[i]) /\ ~IsComment(fmt_in.lines[i])})
        ELSE /\ ~fmt_out.ok
             /\ fmt_out.exc = "FileNotFoundError"
             /\ fmt_out.map = <<>>

\* C12 witness: a file with two entries of the key K, the second with spaces
\* around its parts, and a comment line: the second entry is the one kept
C12_Witness ==
    /\ fmt_pc = "done"
    /\ fmt_in.op = "load"
    /\ fmt_in.exists
    /\ fmt_in.lines = << <<"K", "=", "a", "=", "b", NL>>,
                         <<" ", "K", " ", "=", " ", "b", " ", NL>>,
                         <<" ", "#", "K", "=", "c", NL>> >>
    /\ fmt_out.map = (<<"K">> :> <<"b">>)

(***************************************************************************)
(* The populate_api_data calls, one at a time (logic.py:195-209)           *)
(***************************************************************************)
\* The r-th row of a category result set
IndexRow(code, r) == [API_code |-> code, seq |-> IntV(r)]

IndexCodes == {StrV(A1), StrV(A2), Null}

\* A result set: rows of the codes A1 and A2 and of NULL, in any order
IndexFrames ==
    UNION {{[r \in 1..n |-> IndexRow(codes[r], r)] : codes \in [1..n -> IndexCodes]} :
              n \in 0..MaxIndexRows}

\* The five result sets: the first two populated vary; the others are empty,
\* hold one row of the empty code, and hold three rows of two codes
IndexInputs ==
    {[sh \in Sheets |->
         CASE sh = "API_list" -> f1
           [] sh = "output_setting" -> f2
           [] sh = "IP_permission" -> <<>>
           [] sh = "WebService" -> <<IndexRow(StrV(<<>>), 1)>>
           [] OTHER -> <<IndexRow(StrV(A2), 1), IndexRow(StrV(A1), 2), IndexRow(StrV(A2), 3)>>] :
        f1 \in IndexFrames, f2 \in IndexFrames}

\* logic.py:195: api_data = {}
InitIndex ==
    /\ fmt_pc = "populate"
    /\ fmt_in \in {[op |-> "populate", dfs |-> d] : d \in IndexInputs}
    /\ fmt_out = [index |-> <<>>, done |-> 0]

\* logic.py:205-209: the next populate_api_data call
PopulateCall ==
    /\ fmt_pc = "populate"
    /\ LET sheet_name == PopulateOrder[fmt_out.done + 1] IN
       fmt_out' = [index |-> populate_api_data(fmt_out.index, fmt_in.dfs[sheet_name], sheet_name),
                   done |-> fmt_out.done + 1]
    /\ fmt_pc' = IF fmt_out.done + 1 = Len(PopulateOrder) THEN "done" ELSE "populate"
    /\ UNCHANGED fmt_in
    /\ UNCHANGED <<pipeVars, upVars>>

IndexNext == PopulateCall

IndexInit == IdlePipe /\ InitIndex /\ IdleUp
SpecIndex == IndexInit /\ [][IndexNext]_vars

\* The texts an API code may be: the codes of the result sets and one more
CodeTexts == {A1, A2, A3, <<>>}

\* The rows of df whose code is c, in their order in df
RowsWithCode(df, c) == SelectSeq(df, LAMBDA row : row["API_code"] = StrV(c))

\* C13: after any number of populate_api_data calls the index holds, for each
\* category indexed so far and each non-null code occurring in its result
\* set, exactly the rows of that result set with that code, in their order,
\* under the category's name; a code has no entry for a category in which it
\* has no row, nor for a category not indexed yet; so a call leaves the
\* entries of the categories indexed before it as they were.
C13_HierarchyIndex ==
    fmt_in.op = "populate" =>
        LET index == fmt_out.index
            indexed == {PopulateOrder[i] : i \in 1..fmt_out.done}
        IN /\ DOMAIN index \subseteq CodeTexts
           /\ \A c \in DOMAIN index : DOMAIN index[c] # {}
           /\ \A sh \in Sheets, c \in CodeTexts :
                  LET rows == RowsWithCode(fmt_in.dfs[sh], c)
                      has == c \in DOMAIN index /\ sh \in DOMAIN index[c]
                  IN IF sh \in indexed /\ rows # <<>>
                     THEN has /\ index[c][sh] = rows
                     ELSE ~has

\* C13 witness: the rows of A1 lie around a row of A2 in the first result set,
\* the second holds A2 and a NULL code only, and all five calls were made
C13_Witness ==
    /\ fmt_pc = "done"
    /\ fmt_in.op = "populate"
    /\ fmt_in.dfs["API_list"] =
          <<IndexRow(StrV(A1), 1), IndexRow(StrV(A2), 2), IndexRow(StrV(A1), 3)>>
    /\ fmt_in.dfs["output_setting"] = <<IndexRow(Null, 1), IndexRow(StrV(A2), 2)>>
    /\ fmt_out.index[A1]["API_list"] = <<IndexRow(StrV(A1), 1), IndexRow(StrV(A1), 3)>>
    /\ DOMAIN fmt_out.index[A1] = {"API_list", "param_validation"}
    /\ fmt_out.index[A2]["output_setting"] = <<IndexRow(StrV(A2), 2)>>
    /\ DOMAIN fmt_out.index = {A1, A2, <<>>}

(***************************************************************************)
(* Properties of the batch grouping                                        *)
(***************************************************************************)
\* The data rows of the API-list tables of the document, in order, without
\* the placeholder rows of the batches that have no ordering row
RECURSIVE ApiListDataRows(_)
ApiListDataRows(batches) ==
    IF batches = <<>> THEN <<>>
    ELSE SelectSeq(Head(batches)[2].rows, LAMBDA row : row # PlaceholderRow(3))
         \o ApiListDataRows(Tail(batches))

\* C14 (as claimed): batch grouping loses and duplicates no ordering row,
\* rows with a NULL batch code or batch description included: the API-list
\* tables of all batches hold together as many non-placeholder data rows as
\* the ordering result set has rows, and every ordering row is shown in one
\* of them.
C14_NoOrderingRowLost ==
    Rendered =>
        LET shown == ApiListDataRows(SegmentsOf(doc, "Heading 2")) IN
        /\ Len(shown) = Len(api_hierarchy_df)
        /\ \A i \in 1..Len(api_hierarchy_df) :
               \E j \in 1..Len(shown) :
                   shown[j] = <<FormatApiSeq(api_hierarchy_df[i]["API_seq"]).text,
                                FormatText(api_hierarchy_df[i]["API_code"]),
                                FormatText(api_hierarchy_df[i]["API_desc"])>>

====
